---- MODULE Spec2Model ----
(***************************************************************************)
(* A model of the image-resize command (src/image-resize.go): the          *)
(* geometry resolver transform.newDimensions, the validation newTransform, *)
(* the EXIF orientation mapping useExifOrientation, and the orchestrator   *)
(* do() together with the goroutine it forks to extract EXIF data from the *)
(* byte stream the main decode reads (io.TeeReader into an io.Pipe).       *)
(*                                                                         *)
(* Go's int is taken to be 64 bits wide; every input below is chosen so    *)
(* that no 64-bit product overflows, so Go's arithmetic is the             *)
(* mathematical one.  TLC's integers are 32 bits wide: a comparison of a    *)
(* product against pixelLimit is computed by MulGt, which never forms the  *)
(* product, and Representable keeps the dividends origWidth*h and          *)
(* origHeight*w inside 32 bits.                                            *)
(***************************************************************************)
EXTENDS Integers, Sequences, FiniteSets, TLC

VARIABLES
    par,        \* params of the job: Width, Height, MaxWidth, MaxHeight, Square
    cfg,        \* image.Config read from the header: Width, Height
    kind,       \* format name returned by image.DecodeConfig
    subImager,  \* whether the decoded image implements SubImage
    tr,         \* the transform in force
    width,      \* resolved target width
    height,     \* resolved target height
    err,        \* error do() returns, "none" while running or on success
    pc,         \* position of do()
    img,        \* dimensions of the decoded (possibly cropped) buffer
    outImg,     \* dimensions of the output buffer
    resample,   \* "none" | "skipped" (noupscale) | "resized"
    rotatefunc, \* "nil" | "rotate180" | "rotate90ccw" | "rotate90cw"
    swapWH,     \* the directive's swap flag
    ed,         \* the exifData value received from exifChan, NoEd if none
    checks,     \* number of times do() performed the select on exifChan
    reads,      \* number of reads the main decode has made
    exifChan,   \* buffered channel of capacity ChanCap
    posts,      \* number of values the goroutine sent on exifChan
    pipeBuf,    \* 1 while a Write on pwr waits for the reader, else 0
    pwrClosed,  \* whether pwr.Close() has run
    hpc,        \* position of the goroutine
    data,       \* what exif.Decode returned to the goroutine, NoEd before
    job         \* the params main() passed to do(); par is do()'s own copy

vars == <<par, cfg, kind, subImager, tr, width, height, err, pc, img, outImg,
          resample, rotatefunc, swapWH, ed, checks, reads, exifChan, posts,
          pipeBuf, pwrClosed, hpc, data, job>>

inputVars == <<cfg, kind, subImager, job>>

geomVars == <<par, tr, width, height>>

imageVars == <<img, outImg, resample>>

exifVars == <<rotatefunc, swapWH, ed, checks>>

pipeVars == <<exifChan, posts, pipeBuf, hpc, data>>

----------------------------------------------------------------------------
(* Program constants *)

pixelLimit == 50000000

axisLimit == 65536

ChanCap == 1

(* Bounds of the model *)

MaxReads == 2

----------------------------------------------------------------------------
(* Integer helpers *)

Abs(x) == IF x < 0 THEN -x ELSE x

\* Go's integer division truncates toward zero.
GoDiv(a, b) ==
    IF (a >= 0) = (b > 0) THEN Abs(a) \div Abs(b) ELSE -(Abs(a) \div Abs(b))

\* a*b > limit for a limit >= 0, decided without forming the product.
MulGt(a, b, limit) ==
    /\ a # 0
    /\ b # 0
    /\ (a > 0) = (b > 0)
    /\ Abs(a) > limit \div Abs(b)

----------------------------------------------------------------------------
(* transform.newDimensions and newTransform *)

NoErr == "none"

Transform(w, h, mw, mh) ==
    [Width |-> w, Height |-> h, MaxWidth |-> mw, MaxHeight |-> mh]

ZeroTransform == Transform(0, 0, 0, 0)

Dims(w, h, e) == [w |-> w, h |-> h, err |-> e]

FillWidth(w, h, origWidth, origHeight) ==
    IF w = 0 THEN GoDiv(origWidth * h, origHeight) ELSE w

FillHeight(w, h, origWidth, origHeight) ==
    IF h = 0 THEN GoDiv(origHeight * w, origWidth) ELSE h

AlreadyFitNever(w, h, origWidth, origHeight) == FALSE

AlreadyFit(w, h, origWidth, origHeight) == origWidth <= w /\ origHeight <= h

\* float64(origWidth)/float64(origHeight) > float64(w)/float64(h): all four
\* operands are below 2^26, so both quotients are correctly rounded and two
\* different ratios differ by more than an ulp; the comparison is the exact one.
RelativelyWider(w, h, origWidth, origHeight) == origWidth * h > w * origHeight

AdjustBox(w, h, origWidth, origHeight) ==
    IF RelativelyWider(w, h, origWidth, origHeight)
    THEN <<w, GoDiv(origHeight * w, origWidth)>>
    ELSE <<GoDiv(origWidth * h, origHeight), h>>

ExceedsLimit(w, h) ==
    MulGt(w, h, pixelLimit) \/ w >= axisLimit \/ h >= axisLimit

Guarded(w, h) ==
    IF ExceedsLimit(w, h)
    THEN Dims(0, 0, "destination size exceeds limit")
    ELSE Dims(w, h, NoErr)

MaxBounded(t, origWidth, origHeight) ==
    LET w1 == FillWidth(t.MaxWidth, t.MaxHeight, origWidth, origHeight)
        h1 == FillHeight(w1, t.MaxHeight, origWidth, origHeight)
        wh == IF t.MaxWidth > 0 /\ t.MaxHeight > 0
              THEN AdjustBox(w1, h1, origWidth, origHeight)
              ELSE <<w1, h1>>
    IN  IF AlreadyFit(w1, h1, origWidth, origHeight)
        THEN Dims(origWidth, origHeight, NoErr)
        ELSE Guarded(wh[1], wh[2])

ExactKeepRatio(t, origWidth, origHeight) ==
    Guarded(t.Width, GoDiv(origHeight * t.Width, origWidth))

Exact(t, origWidth, origHeight) ==
    LET w1 == FillWidth(t.Width, t.Height, origWidth, origHeight)
        h1 == FillHeight(w1, t.Height, origWidth, origHeight)
    IN  Guarded(w1, h1)

MaxMode(t) == t.MaxWidth > 0 \/ t.MaxHeight > 0

newDimensions(t, origWidth, origHeight) ==
    IF origWidth = 0 \/ origHeight = 0
    THEN Dims(0, 0, "invalid source dimensions")
    ELSE IF MaxMode(t) THEN MaxBounded(t, origWidth, origHeight)
    ELSE IF t.Width > 0 \/ t.Height > 0 THEN Exact(t, origWidth, origHeight)
    ELSE Dims(0, 0, "invalid transform")

newTransform(w, h, mw, mh) ==
    IF w = 0 /\ h = 0 /\ mw = 0 /\ mh = 0
    THEN [tr |-> ZeroTransform, err |-> "no valid dimensions specified"]
    ELSE IF MulGt(w, h, pixelLimit) \/ mw > pixelLimit \/ mh > pixelLimit
    THEN [tr |-> ZeroTransform, err |-> "destination size exceeds limit"]
    ELSE [tr |-> Transform(w, h, mw, mh), err |-> NoErr]

----------------------------------------------------------------------------
(* useExifOrientation *)

EdRec(e, x, t, v) == [err |-> e, exif |-> x, tag |-> t, val |-> v]

NoEd == EdRec(FALSE, FALSE, FALSE, <<>>)

\* The values exif.Decode can hand back: an error, data without an
\* orientation tag, and data whose orientation tag holds the raw bytes val.
EdValues ==
    {EdRec(TRUE, FALSE, FALSE, <<>>), EdRec(FALSE, TRUE, FALSE, <<>>)}
    \cup {EdRec(FALSE, TRUE, TRUE, v) :
            v \in {<<0, 1>>, <<0, 3>>, <<0, 6>>, <<0, 8>>, <<6>>}}

RECURSIVE OrientationOf(_)
OrientationOf(val) ==
    IF val = <<>> THEN <<"nil", FALSE>>
    ELSE IF Head(val) = 3 THEN <<"rotate180", FALSE>>
    ELSE IF Head(val) = 6 THEN <<"rotate90ccw", TRUE>>
    ELSE IF Head(val) = 8 THEN <<"rotate90cw", TRUE>>
    ELSE OrientationOf(Tail(val))

useExifOrientation(e) ==
    IF e.err \/ ~e.exif THEN <<"nil", FALSE>>
    ELSE IF ~e.tag \/ Len(e.val) # 2 THEN <<"nil", FALSE>>
    ELSE OrientationOf(e.val)

----------------------------------------------------------------------------
(* Geometry of the buffers *)

\* image.Rect(0, 0, w, h) puts its corners in order, so Dx and Dy are |w|, |h|.
RectSize(w, h) == <<Abs(w), Abs(h)>>

MinSide(c) == IF c.Height < c.Width THEN c.Height ELSE c.Width

SwapParamsExactOnly(p) ==
    [p EXCEPT !.Width = p.Height, !.Height = p.Width]

SwapParams(p) ==
    [p EXCEPT !.Width = p.Height, !.Height = p.Width,
              !.MaxWidth = p.MaxHeight, !.MaxHeight = p.MaxWidth]

\* The noupscale test of do(): it reads cfg, the size found in the header.
NoUpscaleCase(c, w, h, t) ==
    (c.Width <= w /\ c.Height <= h) /\ (t.MaxWidth > 0 \/ t.MaxHeight > 0)

RotatedSize(f, size) ==
    IF f \in {"rotate90ccw", "rotate90cw"} THEN <<size[2], size[1]>> ELSE size

----------------------------------------------------------------------------
(* Inputs *)

\* Sizes a job of the orchestrator is given.
JobFields == {0, 2}

JobSides == {2, 3}

\* Sizes the resolver is given: the values around every threshold of the code.
DimFields == {-1, 0, 2, 3, 30000, 65536}

DimSides == {0, 1, 2, 3, 5, 65535, 65536}

Params(F) ==
    [Width : F, Height : F, MaxWidth : F, MaxHeight : F, Square : BOOLEAN]

\* Every dividend origWidth*h, origHeight*w of newDimensions fits 32 bits.
Representable(p, c) ==
    \A f \in {p.Width, p.Height, p.MaxWidth, p.MaxHeight} :
        \A n \in {c.Width, c.Height} :
            IF n = 0 THEN TRUE ELSE Abs(f) <= 2147483647 \div n

Idle ==
    /\ par = job
    /\ tr = ZeroTransform
    /\ width = 0
    /\ height = 0
    /\ err = NoErr
    /\ pc = "start"
    /\ img = <<0, 0>>
    /\ outImg = <<0, 0>>
    /\ resample = "none"
    /\ rotatefunc = "nil"
    /\ swapWH = FALSE
    /\ ed = NoEd
    /\ checks = 0
    /\ reads = 0
    /\ exifChan = <<>>
    /\ posts = 0
    /\ pipeBuf = 0
    /\ pwrClosed = FALSE
    /\ hpc = "none"
    /\ data = NoEd

Init ==
    /\ job \in Params(JobFields)
    /\ cfg \in [Width : JobSides, Height : JobSides]
    /\ kind \in {"jpeg", "png"}
    /\ subImager \in IF job.Square THEN BOOLEAN ELSE {TRUE}
    /\ Idle

DimsInit ==
    /\ job \in Params(DimFields)
    /\ job.Square = FALSE
    /\ cfg \in [Width : DimSides, Height : DimSides]
    /\ Representable(job, cfg)
    /\ kind = "png"
    /\ subImager = TRUE
    /\ Idle

----------------------------------------------------------------------------
(* do(): the orchestrator *)

Piped == hpc # "none"

\* A return of do(): the deferred pwr.Close() runs when the pipe was made.
Return(e) ==
    /\ pc' = "returned"
    /\ err' = e
    /\ pwrClosed' = (pwrClosed \/ Piped)

Goto(l) ==
    /\ pc' = l
    /\ UNCHANGED <<err, pwrClosed>>

NewTransformStep ==
    /\ pc = "start"
    /\ LET r == newTransform(par.Width, par.Height, par.MaxWidth, par.MaxHeight)
       IN  IF r.err # NoErr
           THEN Return(r.err) /\ UNCHANGED tr
           ELSE Goto("open") /\ tr' = r.tr
    /\ UNCHANGED <<inputVars, par, width, height, imageVars, exifVars, reads,
                   pipeVars>>

\* os.Open and image.DecodeConfig: either may fail; on success cfg and kind
\* are what the header of the file says.
OpenInput ==
    /\ pc = "open"
    /\ \/ Return("cannot read input")
       \/ Goto("limit")
    /\ UNCHANGED <<inputVars, geomVars, imageVars, exifVars, reads, pipeVars>>

CheckPixelLimit ==
    /\ pc = "limit"
    /\ IF MulGt(cfg.Width, cfg.Height, pixelLimit)
       THEN Return("image dimensions exceed limit")
       ELSE Goto("resolve")
    /\ UNCHANGED <<inputVars, geomVars, imageVars, exifVars, reads, pipeVars>>

Resolve ==
    /\ pc = "resolve"
    /\ LET d == newDimensions(tr, cfg.Width, cfg.Height)
       IN  IF d.err # NoErr
           THEN Return(d.err) /\ UNCHANGED <<width, height>>
           ELSE Goto("fork") /\ width' = d.w /\ height' = d.h
    /\ UNCHANGED <<inputVars, par, tr, imageVars, exifVars, reads, pipeVars>>

\* Lines 83-99: for a jpeg the reader is teed into a pipe and the goroutine
\* is started.
Fork ==
    /\ pc = "fork"
    /\ hpc' = IF kind = "jpeg" THEN "decode" ELSE hpc
    /\ Goto("decode")
    /\ UNCHANGED <<inputVars, geomVars, imageVars, exifVars, reads, exifChan,
                   posts, pipeBuf, data>>

\* One Read of image.Decode.  Through the TeeReader the bytes read are
\* written to pwr, and a Write on an io.Pipe returns only when the reader
\* has consumed them.
DecodeRead ==
    /\ pc = "decode"
    /\ reads < MaxReads
    /\ reads' = reads + 1
    /\ IF Piped
       THEN pipeBuf' = 1 /\ Goto("write")
       ELSE pipeBuf' = pipeBuf /\ Goto("decode")
    /\ UNCHANGED <<inputVars, geomVars, imageVars, exifVars, exifChan, posts,
                   hpc, data>>

DecodeWritten ==
    /\ pc = "write"
    /\ pipeBuf = 0
    /\ Goto("decode")
    /\ UNCHANGED <<inputVars, geomVars, imageVars, exifVars, reads, pipeVars>>

DecodeDone ==
    /\ pc = "decode"
    /\ reads >= 1
    /\ img' = <<cfg.Width, cfg.Height>>
    /\ Goto("check")
    /\ UNCHANGED <<inputVars, geomVars, outImg, resample, exifVars, reads,
                   pipeVars>>

DecodeFail ==
    /\ pc = "decode"
    /\ Return("cannot decode input")
    /\ UNCHANGED <<inputVars, geomVars, imageVars, exifVars, reads, pipeVars>>

\* The select on exifChan: the receive when a value is buffered, else default.
SelectRecvKeep(ch) ==
    IF Len(ch) > 0
    THEN [ok |-> TRUE, val |-> Head(ch), rest |-> ch]
    ELSE [ok |-> FALSE, val |-> NoEd, rest |-> ch]

SelectRecv(ch) ==
    IF Len(ch) > 0
    THEN [ok |-> TRUE, val |-> Head(ch), rest |-> Tail(ch)]
    ELSE [ok |-> FALSE, val |-> NoEd, rest |-> ch]

CheckExif ==
    /\ pc = "check"
    /\ IF kind = "jpeg"
       THEN LET r == SelectRecv(exifChan)
                o == useExifOrientation(r.val)
            IN  /\ checks' = checks + 1
                /\ exifChan' = r.rest
                /\ IF r.ok
                   THEN ed' = r.val /\ rotatefunc' = o[1] /\ swapWH' = o[2]
                   ELSE UNCHANGED <<ed, rotatefunc, swapWH>>
       ELSE UNCHANGED <<exifVars, exifChan>>
    /\ Goto("swap")
    /\ UNCHANGED <<inputVars, geomVars, imageVars, reads, posts, pipeBuf, hpc,
                   data>>

SwapConstraints ==
    /\ pc = "swap"
    /\ IF swapWH
       THEN LET p == SwapParams(par)
                r == newTransform(p.Width, p.Height, p.MaxWidth, p.MaxHeight)
                d == newDimensions(r.tr, cfg.Width, cfg.Height)
            IN  /\ par' = p
                /\ IF r.err # NoErr
                   THEN Return(r.err) /\ UNCHANGED <<tr, width, height>>
                   ELSE /\ tr' = r.tr
                        /\ IF d.err # NoErr
                           THEN Return(d.err) /\ UNCHANGED <<width, height>>
                           ELSE Goto("square") /\ width' = d.w /\ height' = d.h
       ELSE Goto("square") /\ UNCHANGED geomVars
    /\ UNCHANGED <<inputVars, imageVars, exifVars, reads, pipeVars>>

SquareCrop ==
    /\ pc = "square"
    /\ IF par.Square
       THEN IF ~subImager
            THEN Return("cannot crop image") /\ UNCHANGED <<img, width, height>>
            ELSE LET minSide == MinSide(cfg)
                     d == newDimensions(tr, minSide, minSide)
                 IN  /\ img' = <<minSide, minSide>>
                     /\ IF d.err # NoErr
                        THEN Return(d.err) /\ UNCHANGED <<width, height>>
                        ELSE Goto("scale") /\ width' = d.w /\ height' = d.h
       ELSE Goto("scale") /\ UNCHANGED <<img, width, height>>
    /\ UNCHANGED <<inputVars, par, tr, outImg, resample, exifVars, reads,
                   pipeVars>>

NoUpscale ==
    /\ pc = "scale"
    /\ NoUpscaleCase(cfg, width, height, tr)
    /\ outImg' = img
    /\ resample' = "skipped"
    /\ Goto("fill")
    /\ UNCHANGED <<inputVars, geomVars, img, exifVars, reads, pipeVars>>

\* resize or resizeFallback: a new buffer on image.Rect(0, 0, width, height),
\* or the resampler's error.
Resize ==
    /\ pc = "scale"
    /\ ~NoUpscaleCase(cfg, width, height, tr)
    /\ resample' = "resized"
    /\ \/ Return("cannot resize") /\ UNCHANGED outImg
       \/ Goto("fill") /\ outImg' = RectSize(width, height)
    /\ UNCHANGED <<inputVars, geomVars, img, exifVars, reads, pipeVars>>

\* Lines 164-172: the fill over white makes a buffer on outImg.Bounds(), so
\* it keeps the size; rotatefunc, when set, turns the buffer.
FillAndRotate ==
    /\ pc = "fill"
    /\ outImg' = RotatedSize(rotatefunc, outImg)
    /\ Goto("save")
    /\ UNCHANGED <<inputVars, geomVars, img, resample, exifVars, reads,
                   pipeVars>>

\* os.Create, the encoder and of.Close(): any of them may fail.
Encode ==
    /\ pc = "save"
    /\ \/ Return("cannot write output")
       \/ Return(NoErr)
    /\ UNCHANGED <<inputVars, geomVars, imageVars, exifVars, reads, pipeVars>>

----------------------------------------------------------------------------
(* The goroutine of lines 89-98 *)

\* exif.Decode starts by reading prd: it can return or fail only once a Read
\* has returned, with the bytes of a Write or with the end of the stream.
\* While the goroutine is in exif.Decode it has taken every completed Write.
ExtractorHasRead == reads - pipeBuf >= 1 \/ pwrClosed

\* A Read of exif.Decode on prd takes the bytes of a waiting Write.
ExifRead ==
    /\ hpc = "decode"
    /\ pipeBuf = 1
    /\ pipeBuf' = 0
    /\ UNCHANGED <<inputVars, geomVars, imageVars, exifVars, reads, exifChan,
                   posts, hpc, data, pc, err, pwrClosed>>

\* exif.Decode returns, with data or with an error (at the latest when a
\* Read reports the end of the stream).
ExifReturn ==
    /\ hpc = "decode"
    /\ ExtractorHasRead
    /\ data' \in EdValues
    /\ hpc' = "send"
    /\ UNCHANGED <<inputVars, geomVars, imageVars, exifVars, reads, exifChan,
                   posts, pipeBuf, pc, err, pwrClosed>>

\* exif.Decode panics: the deferred function recovers, and the send of
\* line 97 is never reached.
ExifPanic ==
    /\ hpc = "decode"
    /\ ExtractorHasRead
    /\ hpc' = "drain"
    /\ UNCHANGED <<inputVars, geomVars, imageVars, exifVars, reads, exifChan,
                   posts, pipeBuf, data, pc, err, pwrClosed>>

ExifSendAgain ==
    /\ hpc = "send"
    /\ Len(exifChan) < ChanCap
    /\ exifChan' = Append(exifChan, data)
    /\ posts' = posts + 1
    /\ UNCHANGED <<inputVars, geomVars, imageVars, exifVars, reads, pipeBuf,
                   hpc, data, pc, err, pwrClosed>>

ExifSend ==
    /\ hpc = "send"
    /\ Len(exifChan) < ChanCap
    /\ exifChan' = Append(exifChan, data)
    /\ posts' = posts + 1
    /\ hpc' = "drain"
    /\ UNCHANGED <<inputVars, geomVars, imageVars, exifVars, reads, pipeBuf,
                   data, pc, err, pwrClosed>>

\* io.Copy(ioutil.Discard, prd) in the deferred function.
DrainRead ==
    /\ hpc = "drain"
    /\ pipeBuf = 1
    /\ pipeBuf' = 0
    /\ UNCHANGED <<inputVars, geomVars, imageVars, exifVars, reads, exifChan,
                   posts, hpc, data, pc, err, pwrClosed>>

DrainStop ==
    /\ hpc = "drain"
    /\ hpc' = "done"
    /\ UNCHANGED <<inputVars, geomVars, imageVars, exifVars, reads, exifChan,
                   posts, pipeBuf, data, pc, err, pwrClosed>>

DrainEOF ==
    /\ hpc = "drain"
    /\ pipeBuf = 0
    /\ pwrClosed
    /\ hpc' = "done"
    /\ UNCHANGED <<inputVars, geomVars, imageVars, exifVars, reads, exifChan,
                   posts, pipeBuf, data, pc, err, pwrClosed>>

----------------------------------------------------------------------------
(* Specifications *)

ResolverNext ==
    \/ NewTransformStep
    \/ OpenInput
    \/ CheckPixelLimit
    \/ Resolve

MainNext ==
    \/ ResolverNext
    \/ Fork
    \/ DecodeRead
    \/ DecodeWritten
    \/ DecodeDone
    \/ DecodeFail
    \/ CheckExif
    \/ SwapConstraints
    \/ SquareCrop
    \/ NoUpscale
    \/ Resize
    \/ FillAndRotate
    \/ Encode

HelperNext ==
    \/ ExifRead
    \/ ExifReturn
    \/ ExifPanic
    \/ ExifSend
    \/ DrainRead
    \/ DrainEOF

Next == MainNext \/ HelperNext

Spec == Init /\ [][Next]_vars

\* The resolver on the sizes around its thresholds: do() up to line 81.
DimsSpec == DimsInit /\ [][ResolverNext]_vars

\* Go's scheduler runs every goroutine that can take a step.
FairSpec == Spec /\ WF_vars(MainNext) /\ WF_vars(HelperNext)

\* The main goroutine alone is scheduled fairly: the goroutine of the
\* extractor may be slow or stuck.
MainFairSpec == Spec /\ WF_vars(MainNext)

----------------------------------------------------------------------------
(* The resolver's claims, on the state Resolve leaves (DimsSpec) *)

Resolved == pc = "fork"

ResolveFailed ==
    /\ pc = "returned"
    /\ tr # ZeroTransform
    /\ err \in {"invalid source dimensions", "invalid transform",
                "destination size exceeds limit"}

ValidNative == cfg.Width > 0 /\ cfg.Height > 0

NonNegative(t) ==
    t.Width >= 0 /\ t.Height >= 0 /\ t.MaxWidth >= 0 /\ t.MaxHeight >= 0

\* The bounds of the box, an absent one completed from the other.
BoxWidth ==
    IF tr.MaxWidth = 0
    THEN GoDiv(cfg.Width * tr.MaxHeight, cfg.Height)
    ELSE tr.MaxWidth

BoxHeight ==
    IF tr.MaxHeight = 0
    THEN GoDiv(cfg.Height * BoxWidth, cfg.Width)
    ELSE tr.MaxHeight

InsideBox ==
    /\ tr.MaxWidth > 0 => width <= tr.MaxWidth
    /\ tr.MaxHeight > 0 => height <= tr.MaxHeight
    /\ width <= cfg.Width
    /\ height <= cfg.Height
    /\ (cfg.Width <= BoxWidth /\ cfg.Height <= BoxHeight)
          => (width = cfg.Width /\ height = cfg.Height)

\* C1 as stated: in max-bounded mode, for a native size with both dimensions
\* > 0, a size newDimensions returns lies inside the box, never exceeds the
\* native size, and is the native size when that fits the completed bounds.
C1_AsStated == (Resolved /\ ValidNative /\ MaxMode(tr)) => InsideBox

\* C1 amended: the same, for constraint sets whose MaxWidth and MaxHeight
\* are both non-negative.
C1_InsideBox ==
    (Resolved /\ ValidNative /\ MaxMode(tr)
       /\ tr.MaxWidth >= 0 /\ tr.MaxHeight >= 0) => InsideBox

C1_Witness ==
    /\ Resolved
    /\ tr.MaxWidth > 0
    /\ tr.MaxHeight > 0
    /\ width < cfg.Width
    /\ height = tr.MaxHeight
    /\ height < cfg.Height

\* C2: a size newDimensions returns without error has width*height <=
\* pixelLimit, width < 65536 and height < 65536, for every accepted
\* constraint set and every native size do() lets through.  It is stated
\* here for the constraint sets with non-negative fields only, and fails
\* already there.
C2_WithinLimits ==
    (Resolved /\ ValidNative /\ NonNegative(tr)) =>
        /\ ~MulGt(width, height, pixelLimit)
        /\ width < 65536
        /\ height < 65536

\* C7 as stated: with both Width and Height set, newDimensions returns
\* exactly (Width, Height), whatever the native size.  It is stated here
\* for the constraint sets with non-negative fields only, and fails already
\* there.
C7_AsStated ==
    (ValidNative /\ tr.Width > 0 /\ tr.Height > 0 /\ NonNegative(tr)) =>
        /\ ~ResolveFailed
        /\ Resolved => (width = tr.Width /\ height = tr.Height)

\* C7 amended: with both Width and Height set and neither MaxWidth nor
\* MaxHeight > 0, newDimensions returns exactly (Width, Height), or the
\* limit error when an axis is >= 65536 or Width*Height > pixelLimit.
C7_ExactBoth ==
    (ValidNative /\ tr.Width > 0 /\ tr.Height > 0 /\ ~MaxMode(tr)) =>
        /\ Resolved => (width = tr.Width /\ height = tr.Height)
        /\ ResolveFailed =>
              /\ err = "destination size exceeds limit"
              /\ \/ tr.Width >= 65536
                 \/ tr.Height >= 65536
                 \/ MulGt(tr.Width, tr.Height, 50000000)
        /\ (tr.Width < 65536 /\ tr.Height < 65536) => ~ResolveFailed

C7_Witness ==
    /\ Resolved
    /\ ~MaxMode(tr)
    /\ tr.Width = 3
    /\ tr.Height = 2
    /\ cfg.Width = 2
    /\ cfg.Height = 5
    /\ width = 3
    /\ height = 2

\* C10: a size newDimensions returns without error has width >= 1 and
\* height >= 1, for every accepted constraint set with non-negative fields
\* and every native size with both dimensions > 0.
C10_Positive ==
    (Resolved /\ ValidNative /\ NonNegative(tr)) =>
        (width >= 1 /\ height >= 1)

----------------------------------------------------------------------------
(* The orchestrator's claims (Spec, MainFairSpec, FairSpec) *)

Succeeded == pc = "returned" /\ err = NoErr

Decoded == img # <<0, 0>>

\* do() is past the select of lines 108-115 (image.Decode has returned a
\* buffer and do() is no longer at the select).
PastCheck ==
    \/ pc \in {"swap", "square", "scale", "fill", "save"}
    \/ pc = "returned" /\ Decoded

\* C3: resampling is skipped exactly when max-bounded mode is active and
\* the target width and height are both >= the dimensions of the current
\* buffer (after the square crop, when applied); otherwise the resize step
\* is invoked.
C3_SkipExactly ==
    (resample # "none") =>
        ((resample = "skipped") <=>
            (MaxMode(tr) /\ width >= img[1] /\ height >= img[2]))

\* What do() writes for params p and header c when no orientation directive
\* is produced and no collaborator fails: ok and the size of the output.
PlainRun(p, c) ==
    LET r  == newTransform(p.Width, p.Height, p.MaxWidth, p.MaxHeight)
        d0 == newDimensions(r.tr, c.Width, c.Height)
        m  == MinSide(c)
        d1 == IF p.Square THEN newDimensions(r.tr, m, m) ELSE d0
        buf == IF p.Square THEN <<m, m>> ELSE <<c.Width, c.Height>>
    IN  [ok |-> /\ r.err = NoErr
                /\ ~MulGt(c.Width, c.Height, pixelLimit)
                /\ d0.err = NoErr
                /\ p.Square => subImager
                /\ d1.err = NoErr,
         size |-> IF NoUpscaleCase(c, d1.w, d1.h, r.tr)
                  THEN buf
                  ELSE RectSize(d1.w, d1.h)]

Transposed(size) == <<size[2], size[1]>>

Tag6(e) == ~e.err /\ e.exif /\ e.tag /\ e.val = <<0, 6>>

\* C4 as stated: a jpeg job whose metadata result carries orientation tag 6
\* has swapWH = true and ends with an image of H'xW', where W'xH' is what
\* the same job writes with no orientation directive, whenever both succeed.
C4_AsStated ==
    (Succeeded /\ Tag6(ed) /\ PlainRun(job, cfg).ok) =>
        /\ swapWH
        /\ outImg = Transposed(PlainRun(job, cfg).size)

\* C4 amended: such a job has swapWH = true and ends with an image of
\* H'xW', where W'xH' is what the same input gives with no orientation
\* directive under the constraint set with Width/Height and
\* MaxWidth/MaxHeight pairwise swapped.
C4_SwappedRun ==
    (Succeeded /\ Tag6(ed)) =>
        LET q == [Width |-> job.Height, Height |-> job.Width,
                  MaxWidth |-> job.MaxHeight, MaxHeight |-> job.MaxWidth,
                  Square |-> job.Square]
        IN  /\ swapWH
            /\ rotatefunc = "rotate90ccw"
            /\ PlainRun(q, cfg).ok
            /\ outImg = Transposed(PlainRun(q, cfg).size)

C4_Witness ==
    /\ Succeeded
    /\ Tag6(ed)
    /\ job.Width = 2
    /\ job.Height = 0
    /\ job.MaxWidth = 0
    /\ job.MaxHeight = 0
    /\ ~job.Square
    /\ cfg = [Width |-> 3, Height |-> 2]
    /\ outImg = <<2, 3>>

\* The select of do(): the step that leaves "check" in a jpeg job.
SelectStep == pc = "check" /\ pc' # "check" /\ kind = "jpeg"

C5_State ==
    /\ checks <= 1
    /\ (PastCheck /\ kind = "jpeg") => checks = 1
    /\ (PastCheck /\ ed = NoEd) =>
          (rotatefunc = "nil" /\ ~swapWH /\ par = job)

C5_Step ==
    /\ SelectStep =>
          IF Len(exifChan) > 0
          THEN /\ ed' = Head(exifChan)
               /\ exifChan' = Tail(exifChan)
               /\ <<rotatefunc', swapWH'>> = useExifOrientation(Head(exifChan))
          ELSE /\ ed' = NoEd
               /\ exifChan' = exifChan
    /\ checks >= 1 =>
          /\ checks' = checks
          /\ ed' = ed
          /\ Len(exifChan') >= Len(exifChan)

\* C5: after the main decode do() checks exifChan exactly once and without
\* blocking; a result that is present is consumed and used for the
\* directive; when none is present the job goes on with no rotation and no
\* swap and runs to its end with no step of the goroutine; a result posted
\* after the check is never consumed.
C5_SingleCheck ==
    /\ []C5_State
    /\ [][C5_Step]_vars
    /\ (pc = "check") ~> (pc = "returned")

C5_Witness ==
    /\ Succeeded
    /\ kind = "jpeg"
    /\ checks = 1
    /\ ed = NoEd
    /\ Len(exifChan) = 1
    /\ outImg # <<0, 0>>

\* C6: do() never waits on the goroutine: until do() has returned, some
\* step of do() can be taken whatever the goroutine does or fails to do.
C6_NeverWaits == (pc # "returned") => ENABLED MainNext

ExtractorStopped == hpc \in {"send", "drain"}

C8_State ==
    /\ (pc = "returned" /\ Piped) => pwrClosed
    /\ hpc = "done" => (pwrClosed /\ pipeBuf = 0)

\* C8: once the extractor has stopped the goroutine keeps reading prd until
\* pwr is closed, so every later Write of the main decode completes; every
\* return of do() closes pwr, and the goroutine then ends.
C8_DrainsAndEnds ==
    /\ []C8_State
    /\ (ExtractorStopped /\ pipeBuf = 1) ~> (pipeBuf = 0)
    /\ (pc = "returned" /\ Piped) ~> (hpc = "done")

C8_Witness ==
    /\ pc = "returned"
    /\ err = "cannot decode input"
    /\ reads = MaxReads
    /\ hpc = "done"
    /\ data = NoEd

Finished == hpc \in {"drain", "done"}

Panicked == Finished /\ data = NoEd

C9_State ==
    /\ posts <= 1
    /\ Finished => posts = (IF Panicked THEN 0 ELSE 1)
    /\ hpc = "send" => Len(exifChan) < ChanCap

\* A panic of the extractor changes nothing do() reads.
C9_PanicStep ==
    (hpc = "decode" /\ hpc' = "drain") =>
        UNCHANGED <<pc, err, exifChan, pipeBuf, pwrClosed, inputVars, geomVars,
                    imageVars, exifVars, reads>>

====
